---- MODULE Spec2Model ----
(***************************************************************************)
(* Model of medical-assistant:                                             *)
(*   src/src/pdf_utils.py  (ledger, extraction, chunking, batch upload,    *)
(*                          coursebook and patient ingestion)              *)
(*   src/src/rag.py        (build_retrievers, ask)                         *)
(*   src/app.py            (chat input handler; the script run of one      *)
(*                          session: sidebar, patient upload and dialog)   *)
(*                                                                         *)
(* Conventions.                                                            *)
(*  - A Python Optional value is a sequence of length 0 or 1:              *)
(*    None is <<>> and the value v is <<v>>.                               *)
(*  - A path is <<directory, filename>>.                                   *)
(*  - The text of a chunk is the span of characters it covers:             *)
(*    [file, page, lo, hi] stands for characters lo..hi-1 of that page.    *)
(*  - Retriever weights are kept in tenths (0.9 is 9).                     *)
(*  - The outcomes of calls to the vector store (delete, write, the        *)
(*    ranking a query returns) are inputs of the actions.                  *)
(***************************************************************************)
EXTENDS Integers, Sequences, FiniteSets, TLC

VARIABLES
    store,           \* the Pinecone index: namespace -> sequence of stored vectors
    ingested_books,  \* ingested_books.json: [exists, Medical_Course]
    last,            \* history: what the last operation did and returned
    session,         \* st.session_state of one browser session
    page,            \* that session's widgets and what its last script run showed
    workers          \* two sessions inside process_coursebook_pdf: position and locals

vars == <<store, ingested_books, last, session, page, workers>>

----------------------------------------------------------------------------
(* Bounds of the model *)

\* A patient namespace is not grown beyond this many vectors.
MaxNsSize == 2

\* Largest explicit batch size tried besides the default.
MaxBatchSize == 2

\* The executions of process_patient_pdf for one upload are counted up to this.
MaxCounted == 3

----------------------------------------------------------------------------
(* Program constants *)

COURSE_DIR == "data/medical_course"
PATIENT_DIR == "data/patient_data"
COURSE_NAMESPACE == "Medical_Course"

chunk_size_default == 1000
chunk_overlap_default == 200
batch_size_default == 100
k_course_default == 4
k_patient_default == 4
weights_default == <<9, 1>>

\* The constant c of the library's weighted reciprocal rank fusion.
rrf_c == 60

\* The namespace Pinecone uses when a query names none.
DefaultNamespace == ""

----------------------------------------------------------------------------
(* Optional values *)

None == <<>>
Some(v) == <<v>>
Falsy(opt) == opt = None \/ opt = Some("")

Min(a, b) == IF a < b THEN a ELSE b

----------------------------------------------------------------------------
(* The files on disk: path -> text length of each page (0: no text). *)

CoursePaths ==
    { <<COURSE_DIR, "firstaid.pdf">>,
      <<COURSE_DIR, "burns.pdf">>,
      <<COURSE_DIR, "scan.pdf">> }

PatientPaths ==
    { <<PATIENT_DIR, "P1.pdf">>,
      <<PATIENT_DIR, "P2.pdf">>,
      <<PATIENT_DIR, "blank.pdf">>,
      <<PATIENT_DIR, "gone.pdf">> }

PatientIds == {"P1", "P2"}

Namespaces == {COURSE_NAMESPACE, DefaultNamespace} \cup PatientIds

PathExists(path) == path # <<PATIENT_DIR, "gone.pdf">>

PdfPages(path) ==
    CASE path = <<COURSE_DIR, "firstaid.pdf">> -> <<1900, 0>>
      [] path = <<COURSE_DIR, "burns.pdf">>    -> <<0, 700>>
      [] path = <<COURSE_DIR, "scan.pdf">>     -> <<0, 0>>
      [] path = <<PATIENT_DIR, "P1.pdf">>      -> <<400>>
      [] path = <<PATIENT_DIR, "P2.pdf">>      -> <<0, 0, 900>>
      [] path = <<PATIENT_DIR, "blank.pdf">>   -> <<0, 0>>
      [] OTHER                                 -> <<>>

basename(path) == path[2]

Filenames == {basename(p) : p \in CoursePaths}

BatchSizes == (1..MaxBatchSize) \cup {batch_size_default}

----------------------------------------------------------------------------
(* 0. JSON helpers for coursebooks *)

load_ingested_books ==
    IF ~ingested_books.exists
    THEN [Medical_Course |-> <<>>]
    ELSE [Medical_Course |-> ingested_books.Medical_Course]

\* Mutant: the name is compared with the newest entry only.
InSeq_newest_only(x, s) == s # <<>> /\ s[Len(s)] = x

InSeq(x, s) == \E i \in 1..Len(s) : s[i] = x

book_already_ingested(pdf_name) ==
    InSeq(pdf_name, load_ingested_books.Medical_Course)

\* Mutant: the new list is never saved.
mark_book_ingested_unsaved(pdf_name) == ingested_books

\* The file after mark_book_ingested(pdf_name).
mark_book_ingested(pdf_name) ==
    LET data == load_ingested_books IN
    IF ~InSeq(pdf_name, data.Medical_Course)
    THEN [exists |-> TRUE, Medical_Course |-> Append(data.Medical_Course, pdf_name)]
    ELSE ingested_books

----------------------------------------------------------------------------
(* 1. PDF loading and splitting *)

RECURSIVE LoadPages(_, _, _)
LoadPages(path, pages, i) ==
    IF i > Len(pages) THEN <<>>
    ELSE (IF pages[i] > 0
          THEN << [page_content |-> [file |-> path, page |-> i, lo |-> 0, hi |-> pages[i]],
                   metadata |-> [source |-> path, page |-> i]] >>
          ELSE <<>>)
         \o LoadPages(path, pages, i + 1)

\* Mutant: pages without text are kept.
load_pdf_with_fitz_keep_blank(path) ==
    [i \in 1..Len(PdfPages(path)) |->
        [page_content |-> [file |-> path, page |-> i, lo |-> 0, hi |-> PdfPages(path)[i]],
         metadata |-> [source |-> path, page |-> i]]]

\* One Document per page that has text, tagged with the path and the 1-based page number.
load_pdf_with_fitz(path) == LoadPages(path, PdfPages(path), 1)

RECURSIVE Windows(_, _, _, _)
Windows(len, chunk_size, chunk_overlap, lo) ==
    IF lo + chunk_size >= len THEN << <<lo, len>> >>
    ELSE << <<lo, lo + chunk_size>> >>
         \o Windows(len, chunk_size, chunk_overlap, lo + chunk_size - chunk_overlap)

SplitOne(doc, chunk_size, chunk_overlap) ==
    LET ws == Windows(doc.page_content.hi, chunk_size, chunk_overlap, 0) IN
    [j \in 1..Len(ws) |->
        [page_content |-> [doc.page_content EXCEPT !.lo = ws[j][1], !.hi = ws[j][2]],
         metadata |-> doc.metadata]]

RECURSIVE split_docs(_, _, _)
split_docs(docs, chunk_size, chunk_overlap) ==
    IF docs = <<>> THEN <<>>
    ELSE SplitOne(Head(docs), chunk_size, chunk_overlap)
         \o split_docs(Tail(docs), chunk_size, chunk_overlap)

----------------------------------------------------------------------------
(* 2. Upload in batches *)

\* Mutant: a failed later batch ends the loop (break instead of continue).
RECURSIVE UploadLoopBreak(_, _, _, _, _)
UploadLoopBreak(docs, batch_size, fails, batch_num, acc) ==
    LET i == (batch_num - 1) * batch_size IN
    IF i >= Len(docs) THEN acc
    ELSE
      LET batch == SubSeq(docs, i + 1, Min(i + batch_size, Len(docs)))
          ok == batch_num \notin fails
          attempt == [batch_num |-> batch_num,
                      call |-> IF i = 0 THEN "from_documents" ELSE "add_texts",
                      docs |-> batch,
                      ok |-> ok]
      IN IF ~ok
         THEN [written |-> acc.written,
               attempts |-> Append(acc.attempts, attempt),
               vector_store |-> i # 0]
         ELSE UploadLoopBreak(docs, batch_size, fails, batch_num + 1,
                [written |-> acc.written \o batch,
                 attempts |-> Append(acc.attempts, attempt),
                 vector_store |-> TRUE])

\* fails: the batch numbers whose write raises.
RECURSIVE UploadLoop(_, _, _, _, _)
UploadLoop(docs, batch_size, fails, batch_num, acc) ==
    LET i == (batch_num - 1) * batch_size IN
    IF i >= Len(docs) THEN acc
    ELSE
      LET batch == SubSeq(docs, i + 1, Min(i + batch_size, Len(docs)))
          ok == batch_num \notin fails
          attempt == [batch_num |-> batch_num,
                      call |-> IF i = 0 THEN "from_documents" ELSE "add_texts",
                      docs |-> batch,
                      ok |-> ok]
      IN IF ~ok /\ i = 0
         THEN [written |-> acc.written,
               attempts |-> Append(acc.attempts, attempt),
               vector_store |-> FALSE]
         ELSE UploadLoop(docs, batch_size, fails, batch_num + 1,
                [written |-> IF ok THEN acc.written \o batch ELSE acc.written,
                 attempts |-> Append(acc.attempts, attempt),
                 vector_store |-> TRUE])

\* Mutant: the loop goes on after a failed first batch and a handle is returned.
upload_in_batches_no_abort(docs, batch_size, fails) ==
    LET first == UploadLoop(docs, batch_size, fails, 1,
                    [written |-> <<>>, attempts |-> <<>>, vector_store |-> FALSE])
    IN IF docs # <<>> /\ 1 \in fails
       THEN UploadLoop(docs, batch_size, fails, 2,
                [written |-> <<>>, attempts |-> first.attempts, vector_store |-> TRUE])
       ELSE first

\* Mutant: the batch loop stops one chunk short (range(0, len(docs) - 1, ...)
\* with the slices clipped to it).
upload_in_batches_one_short(docs, batch_size, fails) ==
    UploadLoop(SubSeq(docs, 1, Len(docs) - 1), batch_size, fails, 1,
               [written |-> <<>>, attempts |-> <<>>, vector_store |-> FALSE])

\* written: the chunks that reached the namespace, in order; attempts: the write
\* calls made; vector_store: FALSE when the function returns None.
upload_in_batches(docs, batch_size, fails) ==
    UploadLoop(docs, batch_size, fails, 1,
               [written |-> <<>>, attempts |-> <<>>, vector_store |-> FALSE])

total_batches(n, batch_size) == ((n - 1) \div batch_size) + 1

----------------------------------------------------------------------------
\* st.session_state after the defaults are set (the widget keys are modelled
\* by their effect: a new key empties the widget).
SessionDefaults ==
    [current_patient |-> "None",
     chat_history |-> <<>>,
     show_patient_dialog |-> FALSE,
     processing_patient |-> FALSE,
     patient_meta |-> None,
     patients_cache |-> {}]

Workers == {1, 2}

Init ==
    /\ store = [ns \in Namespaces |-> <<>>]
    /\ ingested_books = [exists |-> FALSE, Medical_Course |-> <<>>]
    /\ last = [op |-> "init"]
    /\ session = SessionDefaults
    /\ page = [patient_pdf |-> None, close_button |-> FALSE, success |-> FALSE,
               rerun |-> FALSE, event |-> "load", error |-> "", executions |-> 0]
    /\ workers = [w \in Workers |->
                    [pc |-> "idle", pdf_path |-> None, data |-> <<>>,
                     vector_store |-> FALSE]]

----------------------------------------------------------------------------

(* 3. Coursebook upload *)

process_coursebook_pdf(pdf_path, batch_size, fails) ==
    LET filename == basename(pdf_path)
    IN
    /\ IF book_already_ingested(filename)
       THEN /\ last' = [op |-> "process_coursebook_pdf", pdf_path |-> pdf_path,
                        filename |-> filename,
                        batch_size |-> batch_size,
                        result |-> "skipped", opened |-> FALSE,
                        chunks |-> <<>>, attempts |-> <<>>]
            /\ UNCHANGED <<store, ingested_books>>
       ELSE LET docs == load_pdf_with_fitz(pdf_path)
                chunks == split_docs(docs, chunk_size_default, chunk_overlap_default)
                up == upload_in_batches(chunks, batch_size, fails)
            IN
            /\ store' = [store EXCEPT ![COURSE_NAMESPACE] = @ \o up.written]
            /\ ingested_books' = IF up.vector_store
                                 THEN mark_book_ingested(filename)
                                 ELSE ingested_books
            /\ last' = [op |-> "process_coursebook_pdf", pdf_path |-> pdf_path,
                        filename |-> filename,
                        batch_size |-> batch_size,
                        result |-> IF up.vector_store THEN "vector_store" ELSE "None",
                        opened |-> TRUE,
                        chunks |-> chunks, attempts |-> up.attempts]

\* The number of batches the chunks of a file make.
NumBatches(pdf_path, batch_size) ==
    total_batches(
        Len(split_docs(load_pdf_with_fitz(pdf_path),
                       chunk_size_default, chunk_overlap_default)),
        batch_size)

ProcessCoursebookPdf ==
    \E pdf_path \in CoursePaths, batch_size \in BatchSizes :
        \E fails \in SUBSET (1..NumBatches(pdf_path, batch_size)) :
            /\ process_coursebook_pdf(pdf_path, batch_size, fails)
            /\ UNCHANGED <<session, page, workers>>

----------------------------------------------------------------------------
(* 4. Patient upload (overwrite namespace) *)

\* The check RecursiveCharacterTextSplitter makes when it is constructed: it
\* raises ValueError for an overlap larger than the chunk size, and only then.
SplitterAccepts(chunk_size, chunk_overlap) == chunk_overlap <= chunk_size

\* The chunking configurations tried: the default, overlap = size, overlap > size.
\* (With overlap = size every page of the patient files fits one chunk.)
ChunkConfigs ==
    { <<chunk_size_default, chunk_overlap_default>>,
      <<chunk_size_default, chunk_size_default>>,
      <<chunk_overlap_default, chunk_size_default>> }

\* delete_ok, write_ok: whether index.delete and from_documents return normally.
process_patient_pdf(pdf_path, patient_id, chunk_size, chunk_overlap, delete_ok, write_ok) ==
    LET base == [op |-> "process_patient_pdf", pdf_path |-> pdf_path,
                 patient_id |-> patient_id,
                 chunk_size |-> chunk_size, chunk_overlap |-> chunk_overlap]
    IN
    /\ UNCHANGED ingested_books
    /\ IF ~PathExists(pdf_path)
       THEN /\ last' = base @@
                       [result |-> "FileNotFoundError", opened |-> FALSE,
                        chunks |-> <<>>, delete_issued |-> FALSE,
                        delete_ok |-> FALSE, write_issued |-> FALSE]
            /\ UNCHANGED store
       ELSE LET docs == load_pdf_with_fitz(pdf_path) IN
            IF docs = <<>>
            THEN /\ last' = base @@
                            [result |-> "ValueError", opened |-> TRUE,
                             chunks |-> <<>>, delete_issued |-> FALSE,
                             delete_ok |-> FALSE, write_issued |-> FALSE]
                 /\ UNCHANGED store
            ELSE IF ~SplitterAccepts(chunk_size, chunk_overlap)
            THEN /\ last' = base @@
                            [result |-> "ValueError(splitter)", opened |-> TRUE,
                             chunks |-> <<>>, delete_issued |-> FALSE,
                             delete_ok |-> FALSE, write_issued |-> FALSE]
                 /\ UNCHANGED store
            ELSE LET chunks == split_docs(docs, chunk_size, chunk_overlap)
                     after_delete == IF delete_ok THEN <<>> ELSE store[patient_id]
                     after_write == IF write_ok THEN after_delete \o chunks
                                    ELSE after_delete
                 IN
                 /\ Len(after_write) <= MaxNsSize
                 /\ store' = [store EXCEPT ![patient_id] = after_write]
                 /\ last' = base @@
                            [result |-> IF write_ok THEN "vector_store" ELSE "None",
                             opened |-> TRUE, chunks |-> chunks,
                             delete_issued |-> TRUE, delete_ok |-> delete_ok,
                             write_issued |-> TRUE]

\* process_patient_pdf as the patient dialog calls it: default chunking.
ProcessPatientPdf ==
    \E pdf_path \in PatientPaths, patient_id \in PatientIds,
       delete_ok \in BOOLEAN, write_ok \in BOOLEAN :
        /\ process_patient_pdf(pdf_path, patient_id,
                               chunk_size_default, chunk_overlap_default,
                               delete_ok, write_ok)
        /\ UNCHANGED <<session, page, workers>>

\* process_patient_pdf called with a chunking configuration of the caller's.
ProcessPatientPdfChunked ==
    \E pdf_path \in PatientPaths, patient_id \in PatientIds,
       cfg \in ChunkConfigs, delete_ok \in BOOLEAN, write_ok \in BOOLEAN :
        /\ process_patient_pdf(pdf_path, patient_id, cfg[1], cfg[2],
                               delete_ok, write_ok)
        /\ UNCHANGED <<session, page, workers>>

----------------------------------------------------------------------------
(* 5. Retrievers *)

\* vs.as_retriever(search_kwargs={"k": k, "namespace": namespace})
as_retriever(k, namespace) ==
    [kind |-> "similarity", k |-> k, namespace |-> namespace]

EnsembleRetriever(retrievers, weights) ==
    [kind |-> "ensemble", retrievers |-> retrievers, weights |-> weights]

\* Mutant: the patient retriever is put first.
build_retrievers_patient_first(patient_id, k_course, k_patient, course_namespace, weights) ==
    LET course_retriever == as_retriever(k_course, course_namespace) IN
    IF Falsy(patient_id)
    THEN course_retriever
    ELSE EnsembleRetriever(
            <<as_retriever(k_patient, patient_id), course_retriever>>, weights)

build_retrievers(patient_id, k_course, k_patient, course_namespace, weights) ==
    LET course_retriever == as_retriever(k_course, course_namespace) IN
    IF Falsy(patient_id)
    THEN course_retriever
    ELSE EnsembleRetriever(
            <<course_retriever, as_retriever(k_patient, patient_id)>>, weights)

\* A query that names no namespace goes to the index's default namespace.
Resolve(namespace) == IF namespace = None THEN DefaultNamespace ELSE namespace[1]

\* The orders in which a similarity query over n vectors can return its top k.
Rankings(n, k) ==
    LET m == Min(k, n) IN
    { rk \in [1..m -> 1..n] : \A i, j \in 1..m : i # j => rk[i] # rk[j] }

\* The result lists a similarity retriever can return: each hit is the stored
\* Document (text and stored metadata) and, beside it, the namespace it came from.
SimilarityResults(r) ==
    LET ns == Resolve(r.namespace)
        content == store[ns]
    IN { [i \in 1..Len(rk) |-> [doc |-> content[rk[i]], origin |-> ns]] :
            rk \in Rankings(Len(content), r.k) }

(* Weighted reciprocal rank fusion of the ensemble: a document's score is the *)
(* sum over the lists of weight / (rank + c); scores are scaled by the        *)
(* product of all the denominators so that they stay integers.                *)
RECURSIVE RankProduct(_)
RankProduct(r) == IF r = 0 THEN 1 ELSE (r + rrf_c) * RankProduct(r - 1)

MaxRank == IF k_course_default > k_patient_default
           THEN k_course_default ELSE k_patient_default

RECURSIVE ListScore(_, _, _, _)
ListScore(list, weight, key, rank) ==
    IF rank > Len(list) THEN 0
    ELSE (IF list[rank].doc.page_content = key
          THEN weight * (RankProduct(MaxRank) \div (rank + rrf_c))
          ELSE 0)
         + ListScore(list, weight, key, rank + 1)

RECURSIVE unique_by_key(_, _)
unique_by_key(hits, seen) ==
    IF hits = <<>> THEN <<>>
    ELSE IF Head(hits).doc.page_content \in seen
         THEN unique_by_key(Tail(hits), seen)
         ELSE <<Head(hits)>>
              \o unique_by_key(Tail(hits), seen \cup {Head(hits).doc.page_content})

\* Stable insertion by descending score.
RECURSIVE InsertDesc(_, _, _)
InsertDesc(sorted, hit, score) ==
    IF sorted = <<>> THEN <<[hit |-> hit, score |-> score]>>
    ELSE IF Head(sorted).score >= score
         THEN <<Head(sorted)>> \o InsertDesc(Tail(sorted), hit, score)
         ELSE <<[hit |-> hit, score |-> score]>> \o sorted

RECURSIVE SortDesc(_, _, _, _, _)
SortDesc(hits, l1, l2, weights, acc) ==
    IF hits = <<>> THEN [i \in 1..Len(acc) |-> acc[i].hit]
    ELSE LET key == Head(hits).doc.page_content
             score == ListScore(l1, weights[1], key, 1)
                      + ListScore(l2, weights[2], key, 1)
         IN SortDesc(Tail(hits), l1, l2, weights, InsertDesc(acc, Head(hits), score))

weighted_reciprocal_rank(l1, l2, weights) ==
    SortDesc(unique_by_key(l1 \o l2, {}), l1, l2, weights, <<>>)

RetrieverResults(r) ==
    IF r.kind = "similarity"
    THEN SimilarityResults(r)
    ELSE { weighted_reciprocal_rank(l1, l2, r.weights) :
             l1 \in SimilarityResults(r.retrievers[1]),
             l2 \in SimilarityResults(r.retrievers[2]) }

\* The queries a retriever sends to the index.
Queries(r) ==
    IF r.kind = "similarity"
    THEN <<[namespace |-> Resolve(r.namespace), k |-> r.k]>>
    ELSE <<[namespace |-> Resolve(r.retrievers[1].namespace), k |-> r.retrievers[1].k],
           [namespace |-> Resolve(r.retrievers[2].namespace), k |-> r.retrievers[2].k]>>

----------------------------------------------------------------------------
(* 6. ask: sources and contexts from the retrieved documents *)

\* dict.get: None when the key is missing.
Get(meta, key) == IF key \in DOMAIN meta THEN Some(meta[key]) ELSE None

\* Mutant: a citation is kept once per (source, page), as a set of pages would.
ask_one_per_page(docs) ==
    LET first == {i \in 1..Len(docs) :
                    \A j \in 1..(i - 1) : docs[j].metadata # docs[i].metadata}
        kept == SelectSeq([i \in 1..Len(docs) |-> [i |-> i, d |-> docs[i]]],
                          LAMBDA x : x.i \in first)
    IN
    [sources |->
        [i \in 1..Len(kept) |->
            [source |-> Get(kept[i].d.metadata, "source"),
             page |-> Get(kept[i].d.metadata, "page"),
             namespace |-> Get(kept[i].d.metadata, "namespace")]],
     contexts |->
        [i \in 1..Len(kept) |->
            [chunk |-> kept[i].d.page_content,
             source |-> Get(kept[i].d.metadata, "source"),
             page |-> Get(kept[i].d.metadata, "page"),
             namespace |-> Get(kept[i].d.metadata, "namespace")]]]

ask(docs) ==
    [sources |->
        [i \in 1..Len(docs) |->
            [source |-> Get(docs[i].metadata, "source"),
             page |-> Get(docs[i].metadata, "page"),
             namespace |-> Get(docs[i].metadata, "namespace")]],
     contexts |->
        [i \in 1..Len(docs) |->
            [chunk |-> docs[i].page_content,
             source |-> Get(docs[i].metadata, "source"),
             page |-> Get(docs[i].metadata, "page"),
             namespace |-> Get(docs[i].metadata, "namespace")]]]

----------------------------------------------------------------------------
(* 7. Asking a question: build_retrievers, the retrieval chain, ask *)

SearchModes == {"Both", "Patient Only", "Coursebook Only"}

\* The arguments the chat input handler passes to build_retrievers in each mode.
Dispatch(search_mode, current) ==
    LET pid == IF current # "None" THEN Some(current) ELSE None IN
    CASE search_mode = "Patient Only" ->
            [patient_id |-> pid, course_namespace |-> None]
      [] search_mode = "Coursebook Only" ->
            [patient_id |-> None, course_namespace |-> Some(COURSE_NAMESPACE)]
      [] OTHER ->
            [patient_id |-> pid, course_namespace |-> Some(COURSE_NAMESPACE)]

\* The source as the handler stores it in the turn: the chunk of the first
\* context with the same source, page and namespace is attached to it.
AttachChunk(src, contexts) ==
    LET hit == {j \in 1..Len(contexts) :
                    /\ src.source = contexts[j].source
                    /\ src.page = contexts[j].page
                    /\ src.namespace = contexts[j].namespace}
    IN [source |-> src.source, page |-> src.page, namespace |-> src.namespace,
        chunk |-> IF hit = {} THEN None
                  ELSE Some(contexts[CHOOSE j \in hit : \A h \in hit : j <= h].chunk)]

\* k_course, k_patient and weights are left to their defaults, as the handler does.
AskQuestion ==
    \E search_mode \in SearchModes, current \in {"None"} \cup PatientIds :
        LET args == Dispatch(search_mode, current)
            retriever == build_retrievers(args.patient_id, k_course_default,
                                          k_patient_default, args.course_namespace,
                                          weights_default)
        IN
        \E hits \in RetrieverResults(retriever) :
            LET docs == [i \in 1..Len(hits) |-> hits[i].doc]
                result == ask(docs)
            IN
            /\ last' = [op |-> "ask",
                        patient_id |-> args.patient_id,
                        course_namespace |-> args.course_namespace,
                        returned |-> TRUE,
                        retriever |-> retriever,
                        queries |-> Queries(retriever),
                        docs |-> docs,
                        origins |-> [i \in 1..Len(hits) |-> hits[i].origin],
                        sources |-> result.sources,
                        contexts |-> result.contexts,
                        turn_sources |->
                            [i \in 1..Len(result.sources) |->
                                AttachChunk(result.sources[i], result.contexts)]]
            /\ UNCHANGED <<store, ingested_books, session, page, workers>>

\* process_coursebook_pdf as the coursebook dialog calls it: default batch size.
ProcessCoursebookPdfDefault ==
    \E pdf_path \in CoursePaths :
        \E fails \in SUBSET (1..NumBatches(pdf_path, batch_size_default)) :
            /\ process_coursebook_pdf(pdf_path, batch_size_default, fails)
            /\ UNCHANGED <<session, page, workers>>

\* Uploads for one patient; the other patient identifiers never get a namespace.
ProcessPatientPdfOne ==
    \E pdf_path \in PatientPaths, delete_ok \in BOOLEAN, write_ok \in BOOLEAN :
        /\ process_patient_pdf(pdf_path, "P1",
                               chunk_size_default, chunk_overlap_default,
                               delete_ok, write_ok)
        /\ UNCHANGED <<session, page, workers>>

----------------------------------------------------------------------------
(* 8. The app script: one action is one run of app.py, top to bottom, for    *)
(* one session. A run ends at st.rerun(), at an exception, or at the end.    *)

\* The patient PDFs a user uploads; their text is PdfPages of the saved path.
UploadFilenames == {"P1.pdf", "P2.pdf", "blank.pdf"}

\* os.path.splitext(filename)[0]
splitext(filename) ==
    CASE filename = "P1.pdf"    -> "P1"
      [] filename = "P2.pdf"    -> "P2"
      [] filename = "blank.pdf" -> "blank"
      [] OTHER                  -> filename

\* The namespaces the index statistics list, without the coursebook namespace.
list_patient_namespaces ==
    {ns \in Namespaces : store[ns] # <<>> /\ ns # COURSE_NAMESPACE}

\* dict[key] = value
DictSet(dict, key, value) ==
    [k \in DOMAIN dict \cup {key} |-> IF k = key THEN value ELSE dict[k]]

\* What the browser sends with the run: the widget the user acted on, or
\* nothing but the rerun the script asked for.
Events ==
    {[kind |-> "rerun"], [kind |-> "interact"], [kind |-> "clear"],
     [kind |-> "close"], [kind |-> "ask"]}
    \cup {[kind |-> "select", patient |-> p] : p \in {"None"} \cup PatientIds}
    \cup {[kind |-> "upload", filename |-> f] : f \in UploadFilenames}

ScriptRun(event) ==
    LET patients == {"None"} \cup list_patient_namespaces \cup session.patients_cache
        \* the selectbox
        current_patient ==
            IF event.kind = "select" THEN event.patient
            ELSE IF session.current_patient \in patients
                 THEN session.current_patient ELSE "None"
        \* the Clear History button
        chat_history ==
            IF event.kind = "clear"
            THEN DictSet(session.chat_history, current_patient, <<>>)
            ELSE session.chat_history
        \* the file uploader
        patient_pdf ==
            IF event.kind = "upload" THEN Some(event.filename) ELSE page.patient_pdf
        sidebar == [session EXCEPT !.current_patient = current_patient,
                                   !.chat_history = chat_history]
        shown == [patient_pdf |-> patient_pdf, close_button |-> FALSE,
                  success |-> FALSE, rerun |-> FALSE, event |-> event.kind,
                  error |-> "", executions |-> page.executions]
    IN
    /\ (event.kind = "rerun") <=> page.rerun
    /\ event.kind = "select"
          => (event.patient \in patients /\ event.patient # session.current_patient)
    /\ event.kind = "clear"
          => (session.current_patient # "None" /\ current_patient # "None")
    /\ event.kind = "close" => page.close_button
    /\ UNCHANGED workers
    /\ IF patient_pdf # None /\ ~session.processing_patient
       THEN \* the upload is saved and the dialog is asked for: st.rerun()
            LET filename == patient_pdf[1] IN
            /\ session' = [sidebar EXCEPT
                              !.patient_meta = Some(<< <<PATIENT_DIR, filename>>,
                                                      splitext(filename), filename >>),
                              !.show_patient_dialog = TRUE,
                              !.processing_patient = TRUE]
            /\ page' = [shown EXCEPT !.rerun = TRUE, !.executions = 0]
            /\ UNCHANGED <<store, ingested_books, last>>
       ELSE IF session.show_patient_dialog
       THEN \* patient_dialog()
            LET save_path == session.patient_meta[1][1]
                patient_id == session.patient_meta[1][2]
            IN
            \E delete_ok \in BOOLEAN, write_ok \in BOOLEAN :
              /\ process_patient_pdf(save_path, patient_id,
                                     chunk_size_default, chunk_overlap_default,
                                     delete_ok, write_ok)
              /\ IF last'.result \notin {"vector_store", "None"}
                 THEN \* the exception ends the run inside the dialog
                      /\ session' = sidebar
                      /\ page' = [shown EXCEPT !.error = last'.result]
                 ELSE IF event.kind = "close"
                 THEN \* st.success, then the Close button returns True: st.rerun()
                      /\ session' = [sidebar EXCEPT
                                        !.patients_cache = @ \cup {patient_id},
                                        !.current_patient = patient_id,
                                        !.show_patient_dialog = FALSE,
                                        !.processing_patient = FALSE]
                      /\ page' = [shown EXCEPT
                                     !.patient_pdf = None,
                                     !.success = TRUE,
                                     !.rerun = TRUE,
                                     !.executions = Min(@ + 1, MaxCounted)]
                 ELSE \* st.success and the Close button; then line 421
                      /\ session' = sidebar
                      /\ page' = [shown EXCEPT
                                     !.close_button = TRUE,
                                     !.success = TRUE,
                                     !.error = "NameError",
                                     !.executions = Min(@ + 1, MaxCounted)]
       ELSE \* line 421: course_pdf is not defined
            /\ session' = sidebar
            /\ page' = [shown EXCEPT !.error = "NameError"]
            /\ UNCHANGED <<store, ingested_books, last>>

\* A run the user causes by acting on a widget.
UserRun == \E event \in Events : event.kind # "rerun" /\ ScriptRun(event)

\* The run st.rerun() asked for.
Rerun == ScriptRun([kind |-> "rerun"])

\* The run a click on the dialog's Close button causes.
CloseRun == ScriptRun([kind |-> "close"])

----------------------------------------------------------------------------
(* 9. Two sessions inside process_coursebook_pdf at the same time. Each step *)
(* is one access to the ledger file or to the index; the steps of the two    *)
(* callers interleave.                                                       *)

\* The file after save_ingested_books(data).
save_ingested_books(data) ==
    [exists |-> TRUE, Medical_Course |-> data.Medical_Course]

\* The call starts: the ledger is read for the skip test.
StartIngestion(w) ==
    \E pdf_path \in CoursePaths :
        /\ workers[w].pc = "idle"
        /\ workers' = [workers EXCEPT ![w] =
                [pc |-> IF book_already_ingested(basename(pdf_path))
                        THEN "skipped" ELSE "upload",
                 pdf_path |-> Some(pdf_path), data |-> <<>>,
                 vector_store |-> FALSE]]
        /\ UNCHANGED <<store, ingested_books, last, session, page>>

\* load_pdf_with_fitz, split_docs, upload_in_batches
UploadIngestion(w) ==
    /\ workers[w].pc = "upload"
    /\ LET pdf_path == workers[w].pdf_path[1]
           chunks == split_docs(load_pdf_with_fitz(pdf_path),
                                chunk_size_default, chunk_overlap_default)
       IN \E fails \in SUBSET (1..NumBatches(pdf_path, batch_size_default)) :
            LET up == upload_in_batches(chunks, batch_size_default, fails) IN
            /\ store' = [store EXCEPT ![COURSE_NAMESPACE] = @ \o up.written]
            /\ workers' = [workers EXCEPT
                              ![w].pc = IF up.vector_store THEN "mark_load" ELSE "returned",
                              ![w].vector_store = up.vector_store]
    /\ UNCHANGED <<ingested_books, last, session, page>>

\* mark_book_ingested: data = load_ingested_books()
MarkLoad(w) ==
    /\ workers[w].pc = "mark_load"
    /\ workers' = [workers EXCEPT
                      ![w].pc = "mark_save",
                      ![w].data = load_ingested_books.Medical_Course]
    /\ UNCHANGED <<store, ingested_books, last, session, page>>

\* mark_book_ingested: append the name if it is not in data, and save data
MarkSave(w) ==
    /\ workers[w].pc = "mark_save"
    /\ LET pdf_name == basename(workers[w].pdf_path[1])
           data == workers[w].data
       IN ingested_books' =
             IF ~InSeq(pdf_name, data)
             THEN save_ingested_books([Medical_Course |-> Append(data, pdf_name)])
             ELSE ingested_books
    /\ workers' = [workers EXCEPT ![w].pc = "returned"]
    /\ UNCHANGED <<store, last, session, page>>

----------------------------------------------------------------------------
(* Ingestion with every batch size and every write outcome. *)
Next ==
    \/ ProcessCoursebookPdf
    \/ ProcessPatientPdf

Spec == Init /\ [][Next]_vars

(* Ingestion followed by questions. *)
NextAsk ==
    \/ ProcessCoursebookPdfDefault
    \/ ProcessPatientPdfOne
    \/ AskQuestion

AskSpec == Init /\ [][NextAsk]_vars

(* Ingestion with chunking configurations other than the default. *)
NextChunk ==
    \/ ProcessPatientPdfChunked
    \/ ProcessCoursebookPdfDefault

ChunkSpec == Init /\ [][NextChunk]_vars

(* One browser session of the app. *)
NextApp ==
    \/ UserRun
    \/ Rerun

AppSpec == Init /\ [][NextApp]_vars

(* Two concurrent callers of process_coursebook_pdf. *)
NextConc ==
    \E w \in Workers :
        \/ StartIngestion(w)
        \/ UploadIngestion(w)
        \/ MarkLoad(w)
        \/ MarkSave(w)

ConcSpec == Init /\ [][NextConc]_vars

(* The same session when the run st.rerun() asks for is made, and the user   *)
(* clicks Close if the button keeps being offered.                           *)
AppFairSpec ==
    Init /\ [][NextApp]_vars /\ WF_vars(Rerun) /\ SF_vars(CloseRun)

----------------------------------------------------------------------------
(* Properties *)

IsCoursebookCall(r) == r.op = "process_coursebook_pdf"
IsPatientCall(r) == r.op = "process_patient_pdf"
IsAsk(r) == r.op = "ask"

Count(x, s) == Cardinality({i \in 1..Len(s) : s[i] = x})

\* The source documents of the vectors in a namespace.
SourcesIn(ns) == {store[ns][i].metadata.source : i \in 1..Len(store[ns])}

\* The chunks of the batches whose write succeeded, in order.
RECURSIVE OkDocs(_)
OkDocs(attempts) ==
    IF attempts = <<>> THEN <<>>
    ELSE (IF Head(attempts).ok THEN Head(attempts).docs ELSE <<>>)
         \o OkDocs(Tail(attempts))

NoTextOnAnyPage(path) ==
    \A i \in 1..Len(PdfPages(path)) : PdfPages(path)[i] = 0

(* C1: after a patient upload that wrote its chunks, every chunk in the      *)
(* patient's namespace is a chunk of that PDF and none is of an earlier one, *)
(* and at all times, whatever the delete-all request did, a patient          *)
(* namespace holds chunks of at most one source document.                    *)
C1_PatientNamespaceHoldsOneDocument ==
    /\ (IsPatientCall(last) /\ last.result = "vector_store")
          => SourcesIn(last.patient_id) = {last.pdf_path}
    /\ \A p \in PatientIds : Cardinality(SourcesIn(p)) <= 1

(* C2 as stated: of two successive ingestions of the same reference         *)
(* filename the second returns "skipped" without opening the PDF and without *)
(* a write.                                                                  *)
C2_SecondIngestionAlwaysSkipped ==
    [][ (IsCoursebookCall(last) /\ IsCoursebookCall(last')
            /\ last'.filename = last.filename)
        => (last'.result = "skipped" /\ ~last'.opened /\ last'.attempts = <<>>)
      ]_vars

(* C2 amended: when an ingestion of a reference filename returned a vector   *)
(* store (or was itself skipped), the next ingestion of the same filename    *)
(* returns "skipped" without opening the PDF, without a write and without a  *)
(* change of the ledger.                                                     *)
C2_SecondIngestionSkippedAfterSuccess ==
    [][ (IsCoursebookCall(last) /\ last.result \in {"vector_store", "skipped"}
            /\ IsCoursebookCall(last') /\ last'.filename = last.filename)
        => (/\ last'.result = "skipped"
            /\ ~last'.opened
            /\ last'.attempts = <<>>
            /\ store' = store
            /\ ingested_books' = ingested_books)
      ]_vars

C2_Witness ==
    /\ IsCoursebookCall(last)
    /\ last.result = "skipped"
    /\ InSeq(last.filename, ingested_books.Medical_Course)
    /\ store[COURSE_NAMESPACE] # <<>>

(* C3: when the first batch write of a reference ingestion fails, no later   *)
(* batch is attempted, nothing is written, the ledger is unchanged and does  *)
(* not hold the filename, and the next ingestion of that filename is not     *)
(* skipped.                                                                  *)
C3_FirstBatchFailureAborts ==
    [][ /\ (IsCoursebookCall(last') /\ last'.attempts # <<>> /\ ~last'.attempts[1].ok)
           => (/\ Len(last'.attempts) = 1
               /\ last'.result = "None"
               /\ store' = store
               /\ ingested_books' = ingested_books
               /\ ~InSeq(last'.filename, ingested_books'.Medical_Course))
        /\ (/\ IsCoursebookCall(last) /\ last.attempts # <<>> /\ ~last.attempts[1].ok
            /\ IsCoursebookCall(last') /\ last'.filename = last.filename)
           => (last'.result # "skipped" /\ last'.opened)
      ]_vars

C3_Witness ==
    /\ IsCoursebookCall(last)
    /\ last.attempts # <<>>
    /\ ~last.attempts[1].ok
    /\ Len(last.chunks) > last.batch_size
    /\ store[COURSE_NAMESPACE] # <<>>

(* C4: when a batch after the first fails, every batch is still attempted,   *)
(* the chunks of the batches that were written are in the namespace after    *)
(* what was there before, and the filename is in the ledger exactly once.    *)
C4_LaterBatchFailureContinues ==
    [][ (IsCoursebookCall(last')
            /\ \E b \in 2..Len(last'.attempts) : ~last'.attempts[b].ok)
        => (/\ Len(last'.attempts)
                  = total_batches(Len(last'.chunks), last'.batch_size)
            /\ \A b \in 1..Len(last'.attempts) : last'.attempts[b].batch_num = b
            /\ last'.attempts[1].ok
            /\ store'[COURSE_NAMESPACE]
                  = store[COURSE_NAMESPACE] \o OkDocs(last'.attempts)
            /\ last'.result = "vector_store"
            /\ Count(last'.filename, ingested_books'.Medical_Course) = 1)
      ]_vars

C4_Witness ==
    /\ IsCoursebookCall(last)
    /\ Len(last.attempts) >= 3
    /\ last.attempts[1].ok
    /\ ~last.attempts[2].ok
    /\ last.attempts[3].ok
    /\ Count(last.filename, ingested_books.Medical_Course) = 1

(* C5: when no page of an existing patient PDF has text, process_patient_pdf *)
(* raises, issues neither the delete-all request nor a write, and leaves the *)
(* store as it was.                                                          *)
C5_NoTextPatientPdfFails ==
    [][ (IsPatientCall(last') /\ PathExists(last'.pdf_path)
            /\ NoTextOnAnyPage(last'.pdf_path))
        => (/\ last'.result = "ValueError"
            /\ ~last'.delete_issued
            /\ ~last'.write_issued
            /\ store' = store)
      ]_vars

C5_Witness ==
    /\ IsPatientCall(last)
    /\ last.result = "ValueError"
    /\ NoTextOnAnyPage(last.pdf_path)
    /\ store[last.patient_id] # <<>>

(* C6: when exactly one namespace is supplied to build_retrievers, the       *)
(* retriever returned is a single similarity retriever on that namespace     *)
(* with that namespace's k, one query is sent, to that namespace, and every  *)
(* result comes from it.                                                     *)
C6_OneNamespaceOneRetriever ==
    (IsAsk(last) /\ (last.patient_id = None) # (last.course_namespace = None))
    => LET ns == IF last.patient_id # None THEN last.patient_id
                 ELSE last.course_namespace
           k == IF last.patient_id # None THEN k_patient_default
                ELSE k_course_default
       IN /\ last.retriever = as_retriever(k, ns)
          /\ last.queries = <<[namespace |-> ns[1], k |-> k]>>
          /\ \A i \in 1..Len(last.origins) : last.origins[i] = ns[1]

(* C7: build_retrievers with neither namespace is rejected: no retriever is  *)
(* returned and no query is sent.                                            *)
C7_NoNamespaceRejected ==
    (IsAsk(last) /\ last.patient_id = None /\ last.course_namespace = None)
    => (~last.returned /\ last.queries = <<>>)

(* C8 as stated: with both namespaces and no weights passed, the composite   *)
(* retriever holds the reference retriever with weight 0.6 and the patient   *)
(* retriever with weight 0.4, in that order.                                 *)
C8_BothModeWeights_06_04 ==
    (IsAsk(last) /\ last.patient_id # None /\ last.course_namespace # None)
    => (/\ last.retriever.kind = "ensemble"
        /\ last.retriever.retrievers
              = <<as_retriever(k_course_default, last.course_namespace),
                  as_retriever(k_patient_default, last.patient_id)>>
        /\ last.retriever.weights = <<6, 4>>)

(* C8 amended: with both namespaces and no weights passed, the composite     *)
(* retriever holds the reference retriever with weight 0.9 and the patient   *)
(* retriever with weight 0.1, in that order.                                 *)
C8_BothModeWeights_09_01 ==
    (IsAsk(last) /\ last.patient_id # None /\ last.course_namespace # None)
    => (/\ last.retriever.kind = "ensemble"
        /\ last.retriever.retrievers
              = <<as_retriever(k_course_default, last.course_namespace),
                  as_retriever(k_patient_default, last.patient_id)>>
        /\ last.retriever.weights = <<9, 1>>)

C8_Witness ==
    /\ IsAsk(last)
    /\ last.patient_id = Some("P1")
    /\ last.course_namespace = Some(COURSE_NAMESPACE)
    /\ \E i \in 1..Len(last.origins) : last.origins[i] = COURSE_NAMESPACE
    /\ \E i \in 1..Len(last.origins) : last.origins[i] = "P1"

(* C9: ask returns one citation per retrieved fragment, in the retriever's   *)
(* order: the i-th source and the i-th context carry the source and page of  *)
(* the i-th fragment (and the context its text); nothing retrieved gives     *)
(* empty lists.                                                              *)
C9_OneCitationPerFragmentInOrder ==
    IsAsk(last)
    => (/\ Len(last.sources) = Len(last.docs)
        /\ Len(last.contexts) = Len(last.docs)
        /\ \A i \in 1..Len(last.docs) :
              /\ last.sources[i].source = Some(last.docs[i].metadata.source)
              /\ last.sources[i].page = Some(last.docs[i].metadata.page)
              /\ last.contexts[i].source = Some(last.docs[i].metadata.source)
              /\ last.contexts[i].page = Some(last.docs[i].metadata.page)
              /\ last.contexts[i].chunk = last.docs[i].page_content)

C9_Witness ==
    /\ IsAsk(last)
    /\ Len(last.docs) >= 3
    /\ last.docs[1].metadata = last.docs[2].metadata
    /\ last.docs[1].page_content # last.docs[2].page_content
    /\ last.docs[3].metadata.source # last.docs[1].metadata.source

(* C10: every citation carries the namespace its fragment was ingested into  *)
(* and retrieved from, never a missing namespace.                            *)
C10_CitationCarriesNamespace ==
    IsAsk(last)
    => \A i \in 1..Len(last.sources) :
          /\ last.sources[i].namespace = Some(last.origins[i])
          /\ last.contexts[i].namespace = Some(last.origins[i])

(* C12: after any sequence of reference ingestions run one at a time          *)
(* (successful, skipped, aborted or partially failed), no filename appears    *)
(* twice in the ledger's list.                                                *)
C12_NoFilenameTwiceInLedger ==
    \A i, j \in 1..Len(ingested_books.Medical_Course) :
        i # j => ingested_books.Medical_Course[i] # ingested_books.Medical_Course[j]

C12_Witness ==
    /\ Len(ingested_books.Medical_Course) >= 2
    /\ IsCoursebookCall(last)
    /\ last.result = "skipped"
    /\ last.filename = ingested_books.Medical_Course[1]

(* C15: a reference ingestion of a PDF in which no page has text does not     *)
(* return silently: it ends in an error (the extraction fails), never in a    *)
(* plain return of None.                                                      *)
C15_NoTextReferenceIngestionFails ==
    (IsCoursebookCall(last) /\ last.opened /\ NoTextOnAnyPage(last.pdf_path))
    => last.result \notin {"None", "vector_store", "skipped"}

(* C17: when no batch write fails, upload_in_batches writes every chunk       *)
(* exactly once and in input order, in ceil(n / batch_size) batches of at     *)
(* most batch_size chunks, the first through from_documents and the later     *)
(* ones through add_texts; for n = 0 it issues no write and returns None.     *)
C17_AllChunksOnceInOrder ==
    [][ (IsCoursebookCall(last') /\ last'.opened
            /\ \A b \in 1..Len(last'.attempts) : last'.attempts[b].ok)
        => LET n == Len(last'.chunks)
               bs == last'.batch_size
               at == last'.attempts
           IN /\ Len(at) = (n + bs - 1) \div bs
              /\ \A b \in 1..Len(at) :
                    /\ Len(at[b].docs) >= 1
                    /\ Len(at[b].docs) <= bs
                    /\ at[b].call = IF b = 1 THEN "from_documents" ELSE "add_texts"
              /\ OkDocs(at) = last'.chunks
              /\ store'[COURSE_NAMESPACE] = store[COURSE_NAMESPACE] \o last'.chunks
              /\ (n = 0) => (at = <<>> /\ last'.result = "None" /\ store' = store)
              /\ (n > 0) => last'.result = "vector_store"
      ]_vars

C17_Witness ==
    /\ IsCoursebookCall(last)
    /\ Len(last.chunks) = 3
    /\ last.batch_size = 2
    /\ Len(last.attempts) = 2
    /\ \A b \in 1..Len(last.attempts) : last.attempts[b].ok
    /\ Len(store[COURSE_NAMESPACE]) > 3

(* C11: in the turn the handler stores, the text attached to the i-th         *)
(* citation is the text of the i-th retrieved fragment, the one the citation  *)
(* was built from, also when several retrieved fragments share the same       *)
(* source, page and namespace.                                                *)
C11_CitationTextIsOwnFragment ==
    IsAsk(last)
    => /\ Len(last.turn_sources) = Len(last.docs)
       /\ \A i \in 1..Len(last.docs) :
             last.turn_sources[i].chunk = Some(last.docs[i].page_content)

(* C13: a chunking configuration that violates overlap < size (overlap = size *)
(* included) is reported as a configuration error before any I/O: the PDF is  *)
(* not opened and neither a delete nor a write is issued.                     *)
C13_BadChunkConfigRejectedBeforeIO ==
    (IsPatientCall(last) /\ last.chunk_overlap >= last.chunk_size)
    => (/\ last.result = "ValueError(splitter)"
        /\ ~last.opened
        /\ ~last.delete_issued
        /\ ~last.write_issued)

(* C14: a question submitted in the chat input results in exactly one turn   *)
(* appended at the end of the history of the patient context current in that *)
(* run, and the histories of the other contexts are unchanged.               *)
C14_QuestionAppendsOneTurn ==
    [][ page'.event = "ask"
        => LET c == session'.current_patient
               before == session.chat_history
               after == session'.chat_history
               old == IF c \in DOMAIN before THEN before[c] ELSE <<>>
           IN /\ c \in DOMAIN after
              /\ Len(after[c]) = Len(old) + 1
              /\ SubSeq(after[c], 1, Len(old)) = old
              /\ \A k \in DOMAIN before \ {c} :
                    k \in DOMAIN after /\ after[k] = before[k]
      ]_vars

(* C16: between the upload of a patient PDF and the closing of its dialog,   *)
(* process_patient_pdf has run to its delete and write at most once, and     *)
(* exactly once when the dialog has been closed.                             *)
C16_ProcessPatientPdfOncePerUpload ==
    /\ page.executions <= 1
    /\ page.event = "close" => page.executions = 1

(* C18: after a patient upload the session always gets back to               *)
(* processing_patient = False and show_patient_dialog = False, also when     *)
(* process_patient_pdf raises because the PDF has no extractable text.       *)
C18_SessionReturnsToIdle ==
    []<>(~session.processing_patient /\ ~session.show_patient_dialog)

(* C19: the dialog shows the success message, and on Close makes the patient *)
(* current and caches it, only if process_patient_pdf wrote the chunks (it   *)
(* returned a vector store, not None).                                       *)
C19_SuccessOnlyIfWritten ==
    /\ page.success => (IsPatientCall(last) /\ last.result = "vector_store")
    /\ (/\ page.event = "close"
        /\ IsPatientCall(last)
        /\ session.current_patient = last.patient_id
        /\ last.patient_id \in session.patients_cache)
       => last.result = "vector_store"

(* C20: when two reference ingestions of different filenames run             *)
(* concurrently and both have completed their uploads and returned, both     *)
(* filenames are in the ledger.                                              *)
C20_ConcurrentIngestionsBothRecorded ==
    \A v, w \in Workers :
        (/\ v # w
         /\ workers[v].pc = "returned" /\ workers[v].vector_store
         /\ workers[w].pc = "returned" /\ workers[w].vector_store
         /\ basename(workers[v].pdf_path[1]) # basename(workers[w].pdf_path[1]))
        => (/\ Count(basename(workers[v].pdf_path[1]), ingested_books.Medical_Course) = 1
            /\ Count(basename(workers[w].pdf_path[1]), ingested_books.Medical_Course) = 1)
====
